---- MODULE Spec2Model ----
(***************************************************************************)
(* Auto-Dumper for FunPay (src/auto_dumper.py): a single-threaded monitor  *)
(* that polls the market listings of one product, finds the cheapest       *)
(* competitor outside a whitelist and undercuts it by a fixed amount,      *)
(* never below a floor price.                                              *)
(*                                                                         *)
(* Four specifications share the state and the cycle's actions:            *)
(*   Spec        main(): configuration load, login, startup notification,  *)
(*               the initial check and then one check per scheduler tick;  *)
(*   SpecDumper  a PriceDumper object right after construction and a       *)
(*               successful load_config_file, whose                        *)
(*               check_and_update_price is called again and again by a     *)
(*               driving loop (no login has been made for it);             *)
(*   SpecFn      find_my_listing and find_cheapest_competitor applied to   *)
(*               arbitrary bounded seller lists.                           *)
(*   SpecConverge  cycles over a market that changes only as the cycles    *)
(*               themselves change it: each listing query returns the      *)
(*               list of the cycle before, my price being the one set.     *)
(*                                                                         *)
(* Prices are whole currency units (the code holds them as finite floats;  *)
(* only comparison and one subtraction are applied to them).               *)
(***************************************************************************)
EXTENDS Integers, Sequences, FiniteSets, TLC

VARIABLES
    pc,                  \* where main() / the current call stands
    config,              \* PriceDumper.config (the CONFIG dictionary)
    bot,                 \* PriceDumper.bot is set (Telegram credentials given)
    funpay_account,      \* PriceDumper.funpay_account: "None" or "Account"
    sellers,             \* check_and_update_price: local `sellers`
    my_listing,          \* check_and_update_price: local `my_listing`
    cheapest_competitor, \* check_and_update_price: local `cheapest_competitor`
    new_price,           \* check_and_update_price: local `new_price` (0: unassigned)
    calls                \* the collaborator calls made since startup / in this cycle

vars == <<pc, config, bot, funpay_account, sellers, my_listing,
          cheapest_competitor, new_price, calls>>

-----------------------------------------------------------------------------
(* Bounds of the model *)

\* longest seller list the market returns
MaxSellers == 3
\* listing prices are 1..MaxPrice
MaxPrice == 3
\* cycles in a row that SpecConverge follows
MaxCycles == 2

-----------------------------------------------------------------------------
(* Values *)

\* Python's None for an optional listing
None == [none |-> TRUE]

Prices == 1..MaxPrice

\* the lots of the configured game/server; "L1" is the operator's own lot
LotIds == {"L1", "L2", "L3", "L4"}

\* each lot belongs to one seller account (user_id, user_name); display names
\* are not unique
LotSeller(id) ==
    CASE id = "L1" -> [user_id |-> "u0", user_name |-> "me"]
      [] id = "L2" -> [user_id |-> "u1", user_name |-> "ann"]
      [] id = "L3" -> [user_id |-> "u2", user_name |-> "bob"]
      [] OTHER     -> [user_id |-> "u3", user_name |-> "bob"]

\* lot.price as the API hands it over: something float() converts, or not
RawPrices == [num : Prices] \cup [text : {"n/a"}]

\* a lot object of funpayapi
RawLots ==
    {[id |-> i, user_id |-> LotSeller(i).user_id,
      user_name |-> LotSeller(i).user_name, price |-> p] :
        i \in LotIds, p \in RawPrices}

SeqsUpTo(S, n) == UNION {[1..k -> S] : k \in 0..n}

DistinctLots(s) == \A i, j \in 1..Len(s) : s[i].id = s[j].id => i = j

\* what Account.get_lots may return: every lot id at most once
MarketLots == {s \in SeqsUpTo(RawLots, MaxSellers) : DistinctLots(s)}

\* whitelist entries name a seller by id or by display name
Whitelists == {{}, {"u1"}, {"bob"}, {"u1", "bob"}}

-----------------------------------------------------------------------------
(* Configuration *)

\* the CONFIG dictionary before config.json is read; the FunPay credentials
\* come from the environment (creds: both are set)
CONFIG(creds) ==
    [price_decrease_amount |-> 1,
     min_price             |-> 0,
     funpay_credentials    |-> creds,
     game_id               |-> "",
     server_id             |-> "",
     lot_id                |-> "",
     whitelist             |-> {}]

\* the contents config.json may have ("" and 0: the key is absent or empty)
ConfigFiles ==
    [game_id               : {"", "game"},
     server_id             : {"", "server"},
     lot_id                : {"", "L1"},
     min_price             : {0, 1, MaxPrice},
     price_decrease_amount : {0, 1},
     whitelist             : Whitelists]

\* lines 64-66: every key of the file that CONFIG knows replaces its value
UpdateConfig(cfg, user_config) ==
    [cfg EXCEPT !.game_id = user_config.game_id,
                !.server_id = user_config.server_id,
                !.lot_id = user_config.lot_id,
                !.min_price = user_config.min_price,
                !.price_decrease_amount = user_config.price_decrease_amount,
                !.whitelist = user_config.whitelist]

\* RequiredFieldMissingId without lot_id in required_fields (C17 does not
\* survive it)
RequiredFieldMissingIdNoLot(cfg) ==
    \/ cfg.game_id = ""
    \/ cfg.server_id = ""

\* `not self.config[field]` for the three identifiers: "" is false
RequiredFieldMissingId(cfg) ==
    \/ cfg.game_id = ""
    \/ cfg.server_id = ""
    \/ cfg.lot_id = ""

\* lines 71-75, `if not self.config[field]` for each required field; for
\* min_price the number 0 is false
RequiredFieldMissing(cfg) ==
    \/ RequiredFieldMissingId(cfg)
    \/ cfg.min_price = 0

\* load_config_file's return value once the file has been read into cfg
load_config_file(cfg) == ~RequiredFieldMissing(cfg)

\* the configurations with which load_config_file returns True
LoadedConfigs ==
    {c \in {UpdateConfig(CONFIG(cr), f) : cr \in BOOLEAN, f \in ConfigFiles} :
        load_config_file(c)}

-----------------------------------------------------------------------------
(* The pure operations on a seller list *)

\* lines 135-140: one entry of `sellers`
SellerEntry(lot) ==
    [seller_id |-> lot.user_id, seller_name |-> lot.user_name,
     price |-> lot.price.num, lot_id |-> lot.id]

\* line 138: float(lot.price) raises for a price that is no number
FloatRaises(lot) == "num" \notin DOMAIN lot.price

\* get_market_prices returning what it had built when float() raised (C11 does
\* not survive it)
get_market_pricesPartial(all_lots) ==
    LET bad == {i \in 1..Len(all_lots) : FloatRaises(all_lots[i])}
        upto == IF bad = {} THEN Len(all_lots)
                ELSE (CHOOSE i \in bad : \A j \in bad : i <= j) - 1
    IN  [i \in 1..upto |-> SellerEntry(all_lots[i])]

\* get_market_prices' result for the lots get_lots returned: the exception of
\* float() leaves the loop and is caught at line 145, which returns []
get_market_prices(all_lots) ==
    IF \E i \in 1..Len(all_lots) : FloatRaises(all_lots[i])
    THEN <<>>
    ELSE [i \in 1..Len(all_lots) |-> SellerEntry(all_lots[i])]

\* find_my_listing: the scan of lines 152-155 from index i on
RECURSIVE FindMyListingFrom(_, _, _)
FindMyListingFrom(ss, i, cfg) ==
    IF i > Len(ss) THEN None
    ELSE IF ss[i].lot_id = cfg.lot_id THEN ss[i]
    ELSE FindMyListingFrom(ss, i + 1, cfg)

\* find_my_listing falling back on the first entry (C13 does not survive it)
find_my_listingOrFirst(ss, cfg) ==
    IF FindMyListingFrom(ss, 1, cfg) = None /\ ss # <<>> THEN ss[1]
    ELSE FindMyListingFrom(ss, 1, cfg)

\* find_my_listing starting its scan at the second entry (C16 does not
\* survive it)
find_my_listingSkipFirst(ss, cfg) == FindMyListingFrom(ss, 2, cfg)

find_my_listing(ss, cfg) == FindMyListingFrom(ss, 1, cfg)

\* line 164: the entry is my own listing
IsMyLot(seller, cfg) == seller.lot_id = cfg.lot_id

\* InWhitelist without the test of seller_name (C1 does not survive it)
InWhitelistIdOnly(seller, cfg) == seller.seller_id \in cfg.whitelist

\* line 168: the seller's id or name is in the whitelist
InWhitelist(seller, cfg) ==
    seller.seller_id \in cfg.whitelist \/ seller.seller_name \in cfg.whitelist

\* IsCheaper with <= for <: the last of the cheapest entries wins (C5 does
\* not survive it)
IsCheaperOrEqual(seller, cheapest) ==
    cheapest = None \/ seller.price <= cheapest.price

\* line 171: the entry replaces the cheapest one found so far
IsCheaper(seller, cheapest) ==
    cheapest = None \/ seller.price < cheapest.price

\* find_cheapest_competitor: the loop of lines 162-172 from index i on
RECURSIVE FindCheapestFrom(_, _, _, _)
FindCheapestFrom(ss, i, cheapest, cfg) ==
    IF i > Len(ss) THEN cheapest
    ELSE IF IsMyLot(ss[i], cfg) THEN FindCheapestFrom(ss, i + 1, cheapest, cfg)
    ELSE IF InWhitelist(ss[i], cfg) THEN FindCheapestFrom(ss, i + 1, cheapest, cfg)
    ELSE IF IsCheaper(ss[i], cheapest) THEN FindCheapestFrom(ss, i + 1, ss[i], cfg)
    ELSE FindCheapestFrom(ss, i + 1, cheapest, cfg)

find_cheapest_competitor(ss, cfg) == FindCheapestFrom(ss, 1, None, cfg)

\* AlreadyCheapest with < for <=: a tie is undercut (C4 does not survive it)
AlreadyCheapestStrict(mine, competitor) == mine.price < competitor.price

\* line 231: my price is already the cheapest
AlreadyCheapest(mine, competitor) == mine.price <= competitor.price

\* NewPrice without the floor of lines 239-241 (C2 does not survive it)
NewPriceNoFloor(competitor, cfg) ==
    competitor.price - cfg.price_decrease_amount

\* NewPrice without the subtraction of line 236 (C3 does not survive it)
NewPriceNoDecrease(competitor, cfg) ==
    IF competitor.price < cfg.min_price THEN cfg.min_price ELSE competitor.price

\* NewPrice adding the decrease to the competitor's price (C20 does not
\* survive it)
NewPricePlus(competitor, cfg) ==
    LET p == competitor.price + cfg.price_decrease_amount
    IN  IF p < cfg.min_price THEN cfg.min_price ELSE p

\* lines 236-241: the competitor's price less the decrease, raised to the floor
NewPrice(competitor, cfg) ==
    LET p == competitor.price - cfg.price_decrease_amount
    IN  IF p < cfg.min_price THEN cfg.min_price ELSE p

-----------------------------------------------------------------------------
(* The collaborator calls, as the log `calls` records them *)

\* Account(username, password), or the refusal for want of credentials
Login(ok) == [op |-> "login", ok |-> ok]

\* funpay_account.get_lots(game_id, server_id) and the normalisation of its lots
GetLots(ok) == [op |-> "get_lots", ok |-> ok]

\* funpay_account.change_lot_price(lot_id, new_price)
ChangeLotPrice(lot_id, price, ok) ==
    [op |-> "change_lot_price", lot_id |-> lot_id, price |-> price, ok |-> ok]

\* bot.send_message(chat_id, text)
SendMessage(text, ok) == [op |-> "send_message", text |-> text, ok |-> ok]

\* line 271: the startup message
StartedText == [kind |-> "started"]

\* lines 246-251: the message about a lowered price
LoweredText(mine, price, competitor) ==
    [kind |-> "lowered", old_price |-> mine.price, new_price |-> price,
     competitor |-> competitor.seller_name, competitor_price |-> competitor.price]

\* login_to_funpay's possible return values: False without credentials (line
\* 99), else True unless Account(...) raises (line 111)
login_to_funpay(cfg) == IF cfg.funpay_credentials THEN {TRUE, FALSE} ELSE {FALSE}

\* AccountAfterLogin leaving a handle behind a failed login (C10 does not
\* survive it)
AccountAfterLoginAlways(ok, account) == "Account"

\* the session handle after login_to_funpay returned ok: line 104 assigns it
\* only when Account(...) did not raise
AccountAfterLogin(ok, account) == IF ok THEN "Account" ELSE account

-----------------------------------------------------------------------------
(* main(): startup *)

\* lines 255-260: load_config_file; an unreadable file leaves CONFIG as it
\* was and returns False (line 78), and main returns on False
MainLoadConfig ==
    /\ pc = "load_config"
    /\ \E readable \in BOOLEAN :
         IF readable
         THEN \E f \in ConfigFiles :
                /\ config' = UpdateConfig(config, f)
                /\ pc' = IF load_config_file(config') THEN "login" ELSE "exited"
         ELSE /\ config' = config
              /\ pc' = "exited"
    /\ UNCHANGED <<bot, funpay_account, sellers, my_listing,
                   cheapest_competitor, new_price, calls>>

\* lines 262-265: login_to_funpay; main returns when it fails
MainLogin ==
    /\ pc = "login"
    /\ \E ok \in login_to_funpay(config) :
         /\ funpay_account' = AccountAfterLogin(ok, funpay_account)
         /\ calls' = Append(calls, Login(ok))
         /\ pc' = IF ok THEN "startup_notify" ELSE "exited"
    /\ UNCHANGED <<config, bot, sellers, my_listing, cheapest_competitor,
                   new_price>>

\* send_telegram_notification (lines 82-94): without a bot nothing is sent;
\* with one, send_message is called and may raise, which is caught
send_telegram_notification(text) ==
    IF bot
    THEN \E ok \in BOOLEAN : calls' = Append(calls, SendMessage(text, ok))
    ELSE calls' = calls

\* lines 267-271: the job is scheduled and the startup message is sent
MainStartupNotify ==
    /\ pc = "startup_notify"
    /\ send_telegram_notification(StartedText)
    /\ pc' = "initial_check"
    /\ UNCHANGED <<config, bot, funpay_account, sellers, my_listing,
                   cheapest_competitor, new_price>>

-----------------------------------------------------------------------------
(* check_and_update_price: one cycle, a step for each collaborator call *)

\* EnsureLoggedIn with the job started on a thread of its own whenever the
\* tick fires, a cycle in progress or not (C14 does not survive it)
EnsureLoggedInAnytime ==
    /\ pc \in {"initial_check", "idle", "get_market_prices", "find",
               "update_my_price", "notify"}
    /\ sellers' = <<>>
    /\ my_listing' = None
    /\ cheapest_competitor' = None
    /\ new_price' = 0
    /\ IF funpay_account = "None"
       THEN \E ok \in login_to_funpay(config) :
              /\ funpay_account' = AccountAfterLogin(ok, funpay_account)
              /\ calls' = <<Login(ok)>>
              /\ pc' = IF ok THEN "get_market_prices" ELSE "idle"
       ELSE /\ calls' = <<>>
            /\ pc' = "get_market_prices"
            /\ UNCHANGED funpay_account
    /\ UNCHANGED <<config, bot>>

\* lines 198-206. The call is made by main (line 274, pc = "initial_check")
\* or by schedule.run_pending (line 278, pc = "idle"). The locals are fresh,
\* and login_to_funpay is called only when no session handle is held.
EnsureLoggedIn ==
    /\ pc \in {"initial_check", "idle"}
    /\ sellers' = <<>>
    /\ my_listing' = None
    /\ cheapest_competitor' = None
    /\ new_price' = 0
    /\ IF funpay_account = "None"
       THEN \E ok \in login_to_funpay(config) :
              /\ funpay_account' = AccountAfterLogin(ok, funpay_account)
              /\ calls' = <<Login(ok)>>
              /\ pc' = IF ok THEN "get_market_prices" ELSE "idle"
       ELSE /\ calls' = <<>>
            /\ pc' = "get_market_prices"
            /\ UNCHANGED funpay_account
    /\ UNCHANGED <<config, bot>>

\* AfterGetMarketPrices without the except clause of line 145: the failure
\* ends the process (C9 does not survive it)
AfterGetMarketPricesUncaught(result) == IF result = <<>> THEN "exited" ELSE "find"

\* where the cycle goes once get_market_prices has returned `result`
\* (lines 210-212): an empty list ends it
AfterGetMarketPrices(result) == IF result = <<>> THEN "idle" ELSE "find"

\* lines 208-212 with get_market_prices (115-147): without a session handle
\* the list is empty (line 121); else get_lots raises, or returns lots that are
\* normalised; every exception gives the empty list
GetMarketPrices ==
    /\ pc = "get_market_prices"
    /\ IF funpay_account = "None"
       THEN /\ sellers' = <<>>
            /\ calls' = calls
       ELSE \E raises \in BOOLEAN :
              IF raises
              THEN /\ sellers' = <<>>
                   /\ calls' = Append(calls, GetLots(FALSE))
              ELSE \E all_lots \in MarketLots :
                     /\ sellers' = get_market_prices(all_lots)
                     /\ calls' = Append(calls,
                          GetLots(\A i \in 1..Len(all_lots) :
                                     ~FloatRaises(all_lots[i])))
    /\ pc' = AfterGetMarketPrices(sellers')
    /\ UNCHANGED <<config, bot, funpay_account, my_listing,
                   cheapest_competitor, new_price>>

\* lines 214-241: my listing, the cheapest competitor, the comparison and the
\* new price; the cycle ends when either is missing or my price is no higher
Decide ==
    /\ pc = "find"
    /\ my_listing' = find_my_listing(sellers, config)
    /\ IF my_listing' = None
       THEN /\ cheapest_competitor' = None
            /\ new_price' = new_price
            /\ pc' = "idle"
       ELSE /\ cheapest_competitor' = find_cheapest_competitor(sellers, config)
            /\ IF cheapest_competitor' = None
               THEN new_price' = new_price /\ pc' = "idle"
               ELSE IF AlreadyCheapest(my_listing', cheapest_competitor')
               THEN new_price' = new_price /\ pc' = "idle"
               ELSE /\ new_price' = NewPrice(cheapest_competitor', config)
                    /\ pc' = "update_my_price"
    /\ UNCHANGED <<config, bot, funpay_account, sellers, calls>>

\* AfterUpdateMyPrice ignoring the result: the message is sent after a failed
\* update too (C6 does not survive it)
AfterUpdateMyPriceAlways(ok) == "notify"

\* AfterUpdateMyPrice trying the update again after a failure (C18 does not
\* survive it)
AfterUpdateMyPriceRetry(ok) == IF ok THEN "notify" ELSE "update_my_price"

\* where the cycle goes once update_my_price has returned ok (line 244)
AfterUpdateMyPrice(ok) == IF ok THEN "notify" ELSE "idle"

\* line 244 with update_my_price (176-196): without a session handle it
\* returns False (line 181); else change_lot_price is called with new_price
\* and may raise, which is caught and gives False
UpdateMyPrice ==
    /\ pc = "update_my_price"
    /\ IF funpay_account = "None"
       THEN /\ calls' = calls
            /\ pc' = AfterUpdateMyPrice(FALSE)
       ELSE \E ok \in BOOLEAN :
              /\ calls' = Append(calls,
                   ChangeLotPrice(config.lot_id, new_price, ok))
              /\ pc' = AfterUpdateMyPrice(ok)
    /\ UNCHANGED <<config, bot, funpay_account, sellers, my_listing,
                   cheapest_competitor, new_price>>

\* Notify without the except clause of line 92: a message that cannot be
\* delivered ends the process (C15 does not survive it)
NotifyUncaught ==
    /\ pc = "notify"
    /\ IF bot
       THEN \E ok \in BOOLEAN :
              /\ calls' = Append(calls,
                   SendMessage(LoweredText(my_listing, new_price,
                                           cheapest_competitor), ok))
              /\ pc' = IF ok THEN "idle" ELSE "exited"
       ELSE calls' = calls /\ pc' = "idle"
    /\ UNCHANGED <<config, bot, funpay_account, sellers, my_listing,
                   cheapest_competitor, new_price>>

\* lines 245-252: the message about the lowered price; its result is ignored
Notify ==
    /\ pc = "notify"
    /\ send_telegram_notification(
         LoweredText(my_listing, new_price, cheapest_competitor))
    /\ pc' = "idle"
    /\ UNCHANGED <<config, bot, funpay_account, sellers, my_listing,
                   cheapest_competitor, new_price>>

Cycle == EnsureLoggedIn \/ GetMarketPrices \/ Decide \/ UpdateMyPrice \/ Notify

-----------------------------------------------------------------------------
(* Spec: the program main() *)

\* the state when main() is entered: CONFIG as the module sets it, and the
\* PriceDumper of line 255, whose bot exists when the Telegram credentials do
Init ==
    /\ pc = "load_config"
    /\ config \in {CONFIG(cr) : cr \in BOOLEAN}
    /\ bot \in BOOLEAN
    /\ funpay_account = "None"
    /\ sellers = <<>>
    /\ my_listing = None
    /\ cheapest_competitor = None
    /\ new_price = 0
    /\ calls = <<>>

Next == MainLoadConfig \/ MainLogin \/ MainStartupNotify \/ Cycle

Spec == Init /\ [][Next]_vars

-----------------------------------------------------------------------------
(* SpecDumper: a PriceDumper whose cycles a driving loop calls *)

\* after PriceDumper(CONFIG) and a load_config_file that returned True;
\* login_to_funpay has not been called
InitDumper ==
    /\ pc = "idle"
    /\ config \in LoadedConfigs
    /\ bot \in BOOLEAN
    /\ funpay_account = "None"
    /\ sellers = <<>>
    /\ my_listing = None
    /\ cheapest_competitor = None
    /\ new_price = 0
    /\ calls = <<>>

NextDumper == Cycle

SpecDumper == InitDumper /\ [][NextDumper]_vars

-----------------------------------------------------------------------------
(* SpecFn: the two searches applied to any seller list *)

\* the entries get_market_prices can produce
SellerEntries == {SellerEntry(lot) : lot \in {l \in RawLots : ~FloatRaises(l)}}

\* every seller list up to MaxSellers entries, repeated lots included
SellerLists == SeqsUpTo(SellerEntries, MaxSellers)

\* the searches read lot_id and whitelist only
FnConfigs ==
    {c \in LoadedConfigs :
        c.min_price = 1 /\ c.price_decrease_amount = 1 /\ c.funpay_credentials}

InitFn ==
    /\ pc = "call"
    /\ config \in FnConfigs
    /\ sellers \in SellerLists
    /\ bot = FALSE
    /\ funpay_account = "None"
    /\ my_listing = None
    /\ cheapest_competitor = None
    /\ new_price = 0
    /\ calls = <<>>

CallFindMyListing ==
    /\ pc = "call"
    /\ my_listing' = find_my_listing(sellers, config)
    /\ pc' = "find_my_listing returned"
    /\ UNCHANGED <<config, bot, funpay_account, sellers, cheapest_competitor,
                   new_price, calls>>

CallFindCheapestCompetitor ==
    /\ pc = "call"
    /\ cheapest_competitor' = find_cheapest_competitor(sellers, config)
    /\ pc' = "find_cheapest_competitor returned"
    /\ UNCHANGED <<config, bot, funpay_account, sellers, my_listing,
                   new_price, calls>>

NextFn == CallFindMyListing \/ CallFindCheapestCompetitor

SpecFn == InitFn /\ [][NextFn]_vars

-----------------------------------------------------------------------------
(* SpecConverge: cycles over a market that nobody else changes *)

\* the non-empty seller lists get_market_prices can return
MarketSnapshots == {get_market_prices(l) : l \in MarketLots} \ {<<>>}

\* a cycle whose listing query (lines 208-212) has just returned a list;
\* `calls` is kept over the cycles that follow
InitConverge ==
    /\ pc = "find"
    /\ config \in {c \in LoadedConfigs : c.funpay_credentials}
    /\ bot \in BOOLEAN
    /\ funpay_account = "Account"
    /\ sellers \in MarketSnapshots
    /\ my_listing = None
    /\ cheapest_competitor = None
    /\ new_price = 0
    /\ calls = <<GetLots(TRUE)>>

\* the list as the market shows it after change_lot_price(lot_id, price)
\* took effect: my listing at that price, every other entry as it was
AfterPriceChange(ss, lot_id, price) ==
    [i \in 1..Len(ss) |->
        IF ss[i].lot_id = lot_id THEN [ss[i] EXCEPT !.price = price] ELSE ss[i]]

\* the next call of check_and_update_price after a cycle whose price update
\* succeeded: lines 198-212 with the session handle held and a listing query
\* that returns the market as that update left it
NextCycleSameMarket ==
    /\ pc = "idle"
    /\ Len(SelectSeq(calls, LAMBDA c : c.op = "get_lots")) < MaxCycles
    /\ \E i \in 1..Len(calls) :
         /\ calls[i].op = "change_lot_price"
         /\ calls[i].ok
         /\ \A j \in (i + 1)..Len(calls) : calls[j].op # "get_lots"
         /\ sellers' = AfterPriceChange(sellers, calls[i].lot_id, calls[i].price)
    /\ my_listing' = None
    /\ cheapest_competitor' = None
    /\ new_price' = 0
    /\ calls' = Append(calls, GetLots(TRUE))
    /\ pc' = AfterGetMarketPrices(sellers')
    /\ UNCHANGED <<config, bot, funpay_account>>

NextConverge == Decide \/ UpdateMyPrice \/ Notify \/ NextCycleSameMarket

SpecConverge == InitConverge /\ [][NextConverge]_vars

-----------------------------------------------------------------------------
(* Properties *)

\* the positions of `calls` holding a call of the given operation
CallsOf(op) == {i \in 1..Len(calls) : calls[i].op = op}

\* the messages about a lowered price among the calls
LoweredMessages ==
    {i \in CallsOf("send_message") : calls[i].text.kind = "lowered"}

Max(a, b) == IF a >= b THEN a ELSE b

\* the entries of `sellers` that are neither my own lot nor whitelisted
EligibleAt ==
    {i \in 1..Len(sellers) :
        /\ sellers[i].lot_id # config.lot_id
        /\ sellers[i].seller_id \notin config.whitelist
        /\ sellers[i].seller_name \notin config.whitelist}

\* C1: find_cheapest_competitor never returns the entry of the own lot_id,
\* nor an entry whose seller_id or seller_name is in the whitelist; what it
\* returns is an entry of the list.
C1_NeverOwnNorWhitelisted ==
    (pc = "find_cheapest_competitor returned" /\ cheapest_competitor # None) =>
        /\ \E i \in 1..Len(sellers) : sellers[i] = cheapest_competitor
        /\ cheapest_competitor.lot_id # config.lot_id
        /\ cheapest_competitor.seller_id \notin config.whitelist
        /\ cheapest_competitor.seller_name \notin config.whitelist

\* a competitor is returned although the own lot and a seller whitelisted by
\* name are both cheaper
C1_Witness ==
    /\ pc = "find_cheapest_competitor returned"
    /\ cheapest_competitor # None
    /\ \E i, j \in 1..Len(sellers) :
         /\ sellers[i].lot_id = config.lot_id
         /\ sellers[i].price < cheapest_competitor.price
         /\ sellers[j].lot_id # config.lot_id
         /\ sellers[j].seller_name \in config.whitelist
         /\ sellers[j].price < cheapest_competitor.price

\* C2: every price handed to change_lot_price is at least the configured
\* min_price.
C2_NeverBelowMinPrice ==
    \A i \in CallsOf("change_lot_price") : calls[i].price >= config.min_price

\* the floor was applied: the competitor's price less the decrease is below
\* min_price and min_price is what change_lot_price was given
C2_Witness ==
    /\ cheapest_competitor # None
    /\ cheapest_competitor.price - config.price_decrease_amount < config.min_price
    /\ \E i \in CallsOf("change_lot_price") : calls[i].price = config.min_price

\* C3: a cycle that finds my price above the cheapest competitor's calls
\* change_lot_price, once, with max(competitor price - decrease, min_price),
\* even when that is no lower than my price or the competitor's.
C3_UpdatesWithClampedPrice ==
    (/\ pc \in {"notify", "idle"}
     /\ my_listing # None
     /\ cheapest_competitor # None
     /\ my_listing.price > cheapest_competitor.price) =>
        /\ Cardinality(CallsOf("change_lot_price")) = 1
        /\ \A i \in CallsOf("change_lot_price") :
             /\ calls[i].lot_id = config.lot_id
             /\ calls[i].price =
                  Max(cheapest_competitor.price - config.price_decrease_amount,
                      config.min_price)

\* the degenerate case: the price set is the floor, which is no lower than
\* my price and above the competitor's
C3_Witness ==
    /\ pc = "idle"
    /\ my_listing # None
    /\ cheapest_competitor # None
    /\ my_listing.price > cheapest_competitor.price
    /\ \E i \in CallsOf("change_lot_price") :
         /\ calls[i].price >= my_listing.price
         /\ calls[i].price > cheapest_competitor.price

\* C4: a cycle that finds my price at or below the cheapest competitor's ends
\* there: change_lot_price is not called and no message is sent.
C4_NoActionNoSideEffects ==
    (/\ my_listing # None
     /\ cheapest_competitor # None
     /\ my_listing.price <= cheapest_competitor.price) =>
        /\ pc = "idle"
        /\ CallsOf("change_lot_price") = {}
        /\ CallsOf("send_message") = {}

\* the tie: the cycle ended after its listing query
C4_Witness ==
    /\ pc = "idle"
    /\ my_listing # None
    /\ cheapest_competitor # None
    /\ my_listing.price = cheapest_competitor.price
    /\ CallsOf("get_lots") # {}

\* C5: find_cheapest_competitor returns None exactly when no entry is
\* eligible; otherwise it returns the first, in list order, of the eligible
\* entries of minimal price.
C5_FirstCheapestEligible ==
    pc = "find_cheapest_competitor returned" =>
        /\ cheapest_competitor = None <=> EligibleAt = {}
        /\ EligibleAt # {} =>
             \E k \in EligibleAt :
                /\ cheapest_competitor = sellers[k]
                /\ \A j \in EligibleAt : sellers[k].price <= sellers[j].price
                /\ \A j \in EligibleAt :
                     sellers[j].price = sellers[k].price => k <= j

\* two eligible entries of different lots share the minimal price and the
\* earlier one is returned
C5_Witness ==
    /\ pc = "find_cheapest_competitor returned"
    /\ \E k, j \in EligibleAt :
         /\ k < j
         /\ sellers[j].price = sellers[k].price
         /\ sellers[j].lot_id # sellers[k].lot_id
         /\ cheapest_competitor = sellers[k]
         /\ \A m \in EligibleAt : sellers[k].price <= sellers[m].price

\* C6: the message about a lowered price directly follows a successful
\* change_lot_price of the same cycle; after a failed change_lot_price the
\* cycle ends without any message.
C6_NotifyOnlyAfterSuccess ==
    /\ \A i \in LoweredMessages :
         /\ i > 1
         /\ calls[i - 1].op = "change_lot_price"
         /\ calls[i - 1].ok
    /\ \A i \in CallsOf("change_lot_price") :
         ~calls[i].ok => (i = Len(calls) /\ pc = "idle")

\* a message about a lowered price was sent
C6_Witness ==
    /\ pc = "idle"
    /\ LoweredMessages # {}

\* the last call recorded is one of `ops` and it failed
LastCallFailed(ops) ==
    /\ calls # <<>>
    /\ calls[Len(calls)].op \in ops
    /\ ~calls[Len(calls)].ok

\* C7: after a cycle in which the listing query or the price update failed
\* while a session handle was held, the next cycle logs in again before it
\* queries.
C7_ReloginAfterFailure ==
    [][(/\ pc = "idle"
        /\ funpay_account = "Account"
        /\ LastCallFailed({"get_lots", "change_lot_price"})
        /\ pc' # pc)
       => \E i \in 1..Len(calls') : calls'[i].op = "login"]_vars

\* C8: a configuration with min_price 0 and non-empty game_id, server_id and
\* lot_id is accepted: main does not return after load_config_file.
C8_ZeroMinPriceAccepted ==
    (/\ config.game_id # ""
     /\ config.server_id # ""
     /\ config.lot_id # ""
     /\ config.min_price = 0) => pc # "exited"

\* C9 as claimed: whenever a login, a listing query or a price update fails,
\* the process keeps running and the next tick can start a cycle.
C9_NoFailureEndsTheProcess ==
    LastCallFailed({"login", "get_lots", "change_lot_price"}) =>
        (pc = "idle" /\ ENABLED EnsureLoggedIn)

\* C9, amended: whenever a listing query or a price update fails, the
\* process keeps running and the next tick can start a cycle; the failure of
\* the login at startup ends the process.
C9_QueryAndUpdateFailuresSurvived ==
    /\ LastCallFailed({"get_lots", "change_lot_price"}) =>
         (pc = "idle" /\ ENABLED EnsureLoggedIn)
    /\ LastCallFailed({"login"}) => pc = "exited"

\* a price update failed after the listing query made with the same handle had
\* succeeded, and the process waits for the next tick
C9_Witness ==
    /\ pc = "idle"
    /\ LastCallFailed({"change_lot_price"})
    /\ \E i \in CallsOf("get_lots") : calls[i].ok

\* the cycle started without a session handle and its login failed
LoginFailedInCycle ==
    /\ calls # <<>>
    /\ calls[1].op = "login"
    /\ ~calls[1].ok

\* C10: when a cycle starts without a session handle and the login fails,
\* the cycle ends with no listing query, no price update and no message, the
\* handle stays absent, and the next cycle begins with a login.
C10_FailedLoginAbortsCycle ==
    /\ [](LoginFailedInCycle =>
            /\ calls = <<Login(FALSE)>>
            /\ pc = "idle"
            /\ funpay_account = "None")
    /\ [][(LoginFailedInCycle /\ calls' # calls) => calls'[1].op = "login"]_vars

\* a first cycle's login was refused: nothing else was called
C10_Witness ==
    /\ LoginFailedInCycle
    /\ pc = "idle"
    /\ funpay_account = "None"
    /\ config.funpay_credentials

\* the cycle made no price update and sent no message
NoUpdateNoMessage ==
    /\ CallsOf("change_lot_price") = {}
    /\ CallsOf("send_message") = {}

\* C11: a failure while the listings are fetched or normalised leaves the
\* empty list, never a part of the listings, and a cycle whose list is empty
\* ends without a price update and without a message.
C11_FailureGivesEmptySnapshot ==
    /\ \A i \in CallsOf("get_lots") : ~calls[i].ok => sellers = <<>>
    /\ (CallsOf("get_lots") # {} /\ sellers = <<>>) =>
         (pc = "idle" /\ NoUpdateNoMessage)

\* the listing query failed and the cycle ended with it
C11_Witness ==
    /\ pc = "idle"
    /\ sellers = <<>>
    /\ calls = <<GetLots(FALSE)>>

\* C12: when no listing other than my own is outside the whitelist, the
\* cycle ends without a price update and without a message, whatever the
\* prices are.
C12_AllWhitelistedNoAction ==
    (sellers # <<>> /\ pc # "find" /\ EligibleAt = {}) =>
        (pc = "idle" /\ NoUpdateNoMessage)

\* my listing was found, every other one is whitelisted, one of them is
\* cheaper than mine
C12_Witness ==
    /\ pc = "idle"
    /\ my_listing # None
    /\ EligibleAt = {}
    /\ \E i \in 1..Len(sellers) :
         /\ sellers[i].lot_id # config.lot_id
         /\ sellers[i].price < my_listing.price

\* C13: when no entry of the list has my lot_id, the cycle ends without a
\* price update and without a message, even with eligible competitors.
C13_OwnListingMissingNoAction ==
    (/\ sellers # <<>>
     /\ pc # "find"
     /\ \A i \in 1..Len(sellers) : sellers[i].lot_id # config.lot_id) =>
        (pc = "idle" /\ my_listing = None /\ NoUpdateNoMessage)

\* my lot is missing from a list that holds two eligible competitors, the
\* first of them the dearer one
C13_Witness ==
    /\ pc = "idle"
    /\ \A i \in 1..Len(sellers) : sellers[i].lot_id # config.lot_id
    /\ \E i, j \in EligibleAt : i < j /\ sellers[i].price > sellers[j].price

SuccessfulUpdates == {i \in CallsOf("change_lot_price") : calls[i].ok}

\* C15: after a successful price update the message is attempted at most
\* once (not at all without a bot); whether it is delivered or not, the cycle
\* ends, the update is not repeated or undone, and the next cycle can start.
C15_NotificationBestEffort ==
    /\ Cardinality(LoweredMessages) <= 1
    /\ LastCallFailed({"send_message"}) => pc \in {"initial_check", "idle"}
    /\ (pc = "idle" /\ SuccessfulUpdates # {}) =>
         /\ Cardinality(CallsOf("change_lot_price")) = 1
         /\ Cardinality(LoweredMessages) = IF bot THEN 1 ELSE 0
         /\ ENABLED EnsureLoggedIn

\* the message about a lowered price could not be delivered
C15_Witness ==
    /\ pc = "idle"
    /\ SuccessfulUpdates # {}
    /\ LoweredMessages # {}
    /\ LastCallFailed({"send_message"})

\* C16: find_my_listing returns an entry of the list that has my lot_id when
\* there is one, and None when there is none (the empty list included).
C16_FindsOwnListing ==
    pc = "find_my_listing returned" =>
        IF \E i \in 1..Len(sellers) : sellers[i].lot_id = config.lot_id
        THEN /\ my_listing # None
             /\ my_listing.lot_id = config.lot_id
             /\ \E i \in 1..Len(sellers) : sellers[i] = my_listing
        ELSE my_listing = None

\* my listing is returned from a list it heads
C16_Witness ==
    /\ pc = "find_my_listing returned"
    /\ Len(sellers) > 1
    /\ sellers[1].lot_id = config.lot_id
    /\ my_listing = sellers[1]

\* C17: with game_id, server_id or lot_id missing or empty after
\* load_config_file (an unreadable file leaves all three empty), main returns:
\* no login, no listing query, no price update, no message and no cycle takes
\* place, and nothing follows.
C17_ConfigErrorEndsBeforeAnything ==
    (config.game_id = "" \/ config.server_id = "" \/ config.lot_id = "") =>
        /\ pc \in {"load_config", "exited"}
        /\ calls = <<>>
        /\ funpay_account = "None"
        /\ sellers = <<>>
        /\ pc = "exited" => ~ENABLED Next

\* the file lacked lot_id only, and main has returned
C17_Witness ==
    /\ pc = "exited"
    /\ config.game_id # ""
    /\ config.server_id # ""
    /\ config.lot_id = ""
    /\ config.min_price # 0
    /\ calls = <<>>

\* the place of a collaborator call in the cycle's order
OpRank(op) ==
    CASE op = "login"            -> 1
      [] op = "get_lots"         -> 2
      [] op = "change_lot_price" -> 3
      [] OTHER                   -> 4

\* C18: in one cycle login, listing query, price update and message are each
\* called at most once and in that order; a call that failed is the cycle's
\* last; the price update directly follows a listing query of the same cycle
\* that gave a list with my listing and an eligible competitor; and the
\* cycle logs in exactly when it starts without a session handle.
C18_StepsOrderedNoRetry ==
    /\ [](/\ \A i, j \in 1..Len(calls) :
               i < j => OpRank(calls[i].op) < OpRank(calls[j].op)
          /\ \A i \in 1..Len(calls) : ~calls[i].ok => i = Len(calls)
          /\ \A i \in CallsOf("change_lot_price") :
               /\ i > 1
               /\ calls[i - 1] = GetLots(TRUE)
               /\ sellers # <<>>
               /\ my_listing # None
               /\ my_listing.lot_id = config.lot_id
               /\ \E k \in 1..Len(sellers) : sellers[k] = my_listing
               /\ \E k \in EligibleAt : sellers[k] = cheapest_competitor)
    /\ [][calls' # calls =>
            /\ (Len(calls') = 1 /\ calls'[1].op = "login") =>
                  funpay_account = "None"
            /\ (pc = "idle" /\ funpay_account = "None") =>
                  (Len(calls') = 1 /\ calls'[1].op = "login")]_vars

\* a cycle that made all four calls
C18_Witness ==
    /\ pc = "idle"
    /\ Len(calls) = 4
    /\ calls[1] = Login(TRUE)
    /\ calls[2] = GetLots(TRUE)
    /\ calls[3].op = "change_lot_price"
    /\ calls[4].op = "send_message"

\* C19: every message about a lowered price reports a new price strictly
\* below the old price.
C19_NotifiedPriceIsLower ==
    \A i \in LoweredMessages :
        calls[i].text.new_price < calls[i].text.old_price

\* the listing queries among the calls, one for each cycle of SpecConverge
Queries == CallsOf("get_lots")

\* what C20 supposes: a positive decrease and a floor no higher than the
\* price of any eligible competitor
C20_Supposed ==
    /\ config.price_decrease_amount > 0
    /\ EligibleAt # {}
    /\ \A k \in EligibleAt : config.min_price <= sellers[k].price

\* C20: with a positive decrease and a floor no higher than the cheapest
\* eligible competitor's price, the cycle that follows a successful price
\* update, and sees my listing at the new price and every other listing
\* unchanged, takes no action: no price update and no message.
C20_ConvergesAfterOneUpdate ==
    (Cardinality(Queries) >= 2 /\ C20_Supposed) =>
        /\ pc \in {"find", "idle"}
        /\ Cardinality(Queries) = 2
        /\ calls[Len(calls)].op = "get_lots"
        /\ Cardinality(CallsOf("change_lot_price")) = 1

\* the second cycle found my listing at the price the first one set, with a
\* competitor at a higher price, and ended
C20_Witness ==
    /\ pc = "idle"
    /\ Cardinality(Queries) = 2
    /\ C20_Supposed
    /\ my_listing # None
    /\ cheapest_competitor # None
    /\ \E i \in CallsOf("change_lot_price") :
         calls[i].ok /\ calls[i].price = my_listing.price
    /\ my_listing.price < cheapest_competitor.price

====
